---- MODULE Spec2Model ----
(***************************************************************************)
(* The tool-executing agent loop of agents-demystified (Agent.run and the  *)
(* tools it dispatches to), as a state machine.  One action per            *)
(* continuation of Agent.run between two awaits; the input source, the     *)
(* language-model service, the spawned process, the MCP provider and the   *)
(* completion of the display's operations are the environment.             *)
(*                                                                         *)
(* The run modelled is the one without --hide-tool-result.  Beside it the  *)
(* module carries the log, the requests and the display of the run with    *)
(* --hide-tool-result on the same inputs (the ...Hidden variables), so     *)
(* that the two can be compared state by state.                            *)
(***************************************************************************)
EXTENDS Integers, Sequences, FiniteSets, TLC

\* The service answers at most MaxCalls calls (a later call hangs).
MaxCalls == 2
\* The service returns at most MaxBlocks content blocks over the whole run.
MaxBlocks == 2

VARIABLES
    fallback,      \* getUserInputFromFile was given a fallback (not so in step5)
    remoteCalls,   \* the callTool requests sent to the MCP provider
    toolbox,       \* the ToolBox built at startup
    contents,      \* the array of getUserInputFromFile; empty without --prompt
    stdinDone,     \* the console iterator has reported done
    conversation,  \* Agent.conversation: the message list
    needsInput,    \* the local needsInput of Agent.run
    pc,            \* where Agent.run is suspended
    response,      \* response.content of the response being processed
    idx,           \* position of the for loop over response.content
    exec,          \* the tool execution awaited by executeTool
    fault,         \* what rejected the promise of Agent.run, if anything
    inflight,      \* the requests issued and not yet settled
    requests,      \* every request handed to llm.messages.create
    trace,         \* the requests and settlements, in the order they happened
    shown,         \* the blocks handed to the display, in call order
    showing,       \* tool results whose display was not awaited and is not complete
    conversationHidden,  \* Agent.conversation of the run with --hide-tool-result
    requestsHidden,      \* its requests
    shownHidden          \* the blocks its display shows

vars == <<fallback, remoteCalls, toolbox, contents, stdinDone, conversation, needsInput, pc, response,
          idx, exec, fault, inflight, requests, trace, shown, showing,
          conversationHidden, requestsHidden, shownHidden>>

----------------------------------------------------------------------------
(* Data *)

\* The lines the console iterator may yield.
Lines == {"hi"}

\* The texts the --prompt file may hold.
PromptFiles == {"", "prompt"}

RunTerminalTool == [kind |-> "local", name |-> "run_terminal_command"]
MCPTool(toolDefinition) == [kind |-> "mcp", name |-> toolDefinition]
PlaywrightTool == MCPTool("browser_navigate")

\* What playwright.listTools() may return: the names of its tool definitions.
ProviderToolLists == { <<"browser_navigate">>, <<"run_terminal_command">> }

\* new ToolBox([new RunTerminalTool(), ...playwrightTools])
BuildToolbox(toolDefinitions) ==
    <<RunTerminalTool>> \o
    [i \in 1..Len(toolDefinitions) |-> MCPTool(toolDefinitions[i])]

\* The names a response may ask for; the toolbox does not know
\* browser_navigate when the provider does not list it.
ToolNames == {"run_terminal_command", "browser_navigate"}

Undefined == [kind |-> "undefined"]
NoExec == [kind |-> "none"]
NoId == <<0, 0>>

TextBlock == [type |-> "text", text |-> "t"]
\* The input of a tool_use block, as the service made it up.
ToolInput(name) == [for |-> name]

ToolUseBlock(id, name) ==
    [type |-> "tool_use", id |-> id, name |-> name, input |-> ToolInput(name)]

\* The responses the service may give to call number n with len blocks:
\* every mix of text and tool_use blocks, ids unique within the response.
ResponsesOfLen(n, len) ==
    { [i \in 1..len |->
         IF k[i] = "text" THEN TextBlock ELSE ToolUseBlock(<<n, i>>, k[i])]
      : k \in [1..len -> {"text"} \cup ToolNames] }

Responses(n, budget) == UNION { ResponsesOfLen(n, len) : len \in 0..budget }

RECURSIVE BlocksReturned(_)
BlocksReturned(conv) ==
    IF conv = <<>> THEN 0
    ELSE LET last == conv[Len(conv)]
             rest == BlocksReturned(SubSeq(conv, 1, Len(conv) - 1))
         IN IF last.role = "assistant" THEN rest + Len(last.blocks) ELSE rest

Min(S) == CHOOSE x \in S : \A y \in S : x <= y

----------------------------------------------------------------------------
(* The input sources.  A string that may be undefined is a sequence of at   *)
(* most one string.                                                         *)

\* What iterator.next() may resolve to: a line, or done (for good once seen).
StdinNext ==
    IF stdinDone THEN { [done |-> TRUE, value |-> <<>>] }
    ELSE { [done |-> FALSE, value |-> <<l>>] : l \in Lines }
         \cup { [done |-> TRUE, value |-> <<>>] }

\* getUserInputFromStdin: (await iterator.next()).value
getUserInputFromStdin ==
    { [inputMessage |-> r.value, stdinDone |-> r.done] : r \in StdinNext }

\* contents.pop()
Popped(cs) == IF cs = <<>> THEN <<>> ELSE <<cs[Len(cs)]>>
AfterPop(cs) == IF cs = <<>> THEN <<>> ELSE SubSeq(cs, 1, Len(cs) - 1)

\* if (head): undefined and the empty string are falsy
Truthy(head) == head # <<>> /\ head[1] # ""

\* getUserInputFromFile, resolving: the head of contents when it is truthy;
\* otherwise what the fallback resolves to, and nothing without a fallback
\* (step5 rejects with "EOF").
getUserInputFromFile ==
    LET head == Popped(contents)
    IN IF Truthy(head)
       THEN { [inputMessage |-> head, stdinDone |-> stdinDone] }
       ELSE IF fallback THEN getUserInputFromStdin ELSE {}

----------------------------------------------------------------------------
(* ToolBox, Tool.execute *)

\* ToolBox.find: the first tool of that name, or undefined
find(name) ==
    LET hits == { i \in 1..Len(toolbox) : toolbox[i].name = name }
    IN IF hits = {} THEN Undefined ELSE toolbox[Min(hits)]

\* ToolBox.toParam: one definition per tool, in registration order
toParam == [i \in 1..Len(toolbox) |-> toolbox[i].name]

\* executeTool's own result without the is_error flag.
UnsupportedToolResultUnflagged(content) ==
    << [type |-> "tool_result", tool_use_id |-> content.id,
        content |-> <<"Unsupported tool: ", content.name>>] >>

\* The result executeTool builds itself when find returns undefined.
UnsupportedToolResult(content) ==
    << [type |-> "tool_result", tool_use_id |-> content.id, is_error |-> TRUE,
        content |-> <<"Unsupported tool: ", content.name>>] >>

\* null, the value of proc.exitCode while the runtime has not seen the exit
NullExitCode == -1

\* proc.exitCode when the read of proc.stdout has resolved: the exit status
\* once the runtime has seen the process exit, null before.
exitCode(e) == IF e.exited THEN e.status ELSE NullExitCode

\* RunTerminalTool.execute with is_error: proc.exitCode > 0.
RunTerminalResultPositive(content, e) ==
    << [type |-> "tool_result", tool_use_id |-> content.id,
        is_error |-> (exitCode(e) > 0), content |-> <<"stdout">>] >>

\* RunTerminalTool.execute, from the resolved read of stdout on
RunTerminalResult(content, e) ==
    << [type |-> "tool_result", tool_use_id |-> content.id,
        is_error |-> (exitCode(e) # 0), content |-> <<"stdout">>] >>

\* MCPTool.execute, from the resolved callTool on; content is result.content
\* and is_error is result.isError, which the reply may leave out
MCPResult(content, e) ==
    IF e.reply = "unflagged"
    THEN << [type |-> "tool_result", tool_use_id |-> content.id,
             content |-> e.content] >>
    ELSE << [type |-> "tool_result", tool_use_id |-> content.id,
             content |-> e.content, is_error |-> (e.reply = "error")] >>

\* client.callTool called with the name only.
CallToolRequestNoArguments(content) == [name |-> content.name]

\* The argument of client.callTool
CallToolRequest(content) == [name |-> content.name, arguments |-> content.input]

\* What executeTool starts for a tool_use block: nothing for an unknown name,
\* a spawn (which may throw) for the local tool, a callTool for an MCP tool.
ExecStarts(content) ==
    LET tool == find(content.name)
    IN CASE tool.kind = "undefined" -> { [kind |-> "unknown"] }
         [] tool.kind = "local" ->
              { [kind |-> "local", spawned |-> FALSE, status |-> 0, exited |-> FALSE] }
              \cup { [kind |-> "local", spawned |-> TRUE, status |-> st, exited |-> FALSE]
                     : st \in {0, 1} }
         [] tool.kind = "mcp" ->
              { [kind |-> "mcp", call |-> CallToolRequest(content),
                 reply |-> r, content |-> <<"reply">>]
                : r \in {"ok", "error", "unflagged", "reject"} }

\* The callTool requests an execution sends when it starts.
Sent(e) == IF e.kind = "mcp" THEN <<e.call>> ELSE <<>>

----------------------------------------------------------------------------
(* Display *)

\* Agent.showContent handing a block to the display; hidden tells whether
\* showToolResultContent has been replaced by async () => undefined.
showContent(log, content, hidden) ==
    IF content.type = "tool_result" /\ hidden THEN log ELSE Append(log, content)

\* for (const result of toolResult) this.showContent(result)
RECURSIVE showResults(_, _, _)
showResults(log, toolResult, hidden) ==
    IF toolResult = <<>> THEN log
    ELSE showResults(showContent(log, toolResult[1], hidden),
                     Tail(toolResult), hidden)

\* The ids of the tool results of a list of blocks.
ResultIds(toolResult) ==
    { toolResult[j].tool_use_id : j \in 1..Len(toolResult) }

\* The calls of showContent on a tool result that Agent.run does not await:
\* the display may leave any of them incomplete when the call returns.
UnawaitedShows(toolResult) == SUBSET ResultIds(toolResult)

----------------------------------------------------------------------------
(* Agent *)

\* appendToConversation with unshift for push.
appendToConversationUnshift(conv, role, content) ==
    << [role |-> role, blocks |-> content] >> \o conv

\* Agent.appendToConversation
appendToConversation(conv, role, content) ==
    Append(conv, [role |-> role, blocks |-> content])

\* this.conversation = [...this.conversation, {role: "user", content: inputMessage}]
\* (an undefined content leaves the message without one)
appendUserInput(conv, inputMessage) ==
    conv \o << IF inputMessage = <<>>
               THEN [role |-> "user"]
               ELSE [role |-> "user", text |-> inputMessage[1]] >>

\* The tool_use branch dropping the results the display hides.
recordToolResultIfShown(conv, toolResult, hidden) ==
    IF hidden THEN conv ELSE appendToConversation(conv, "user", toolResult)

\* The tool_use branch appending the results twice.
recordToolResultTwice(conv, toolResult, hidden) ==
    appendToConversation(appendToConversation(conv, "user", toolResult),
                         "user", toolResult)

\* this.appendToConversation("user", toolResult) of the tool_use branch,
\* whatever the display does with the results
recordToolResult(conv, toolResult, hidden) ==
    appendToConversation(conv, "user", toolResult)

Event(ev, id) == [ev |-> ev, id |-> id]

\* A request that has been issued and is awaited; seq tells requests apart.
Pending(kind, tr) == [kind |-> kind, seq |-> Len(tr) + 1]

\* inflight once the awaited request of that kind has settled
Settled(kind) == { p \in inflight : p.kind # kind }

\* The log and the display of the run with --hide-tool-result, and the
\* display of the run without, as they stand.
Mirror == [conv |-> conversationHidden, shown |-> shown, shownH |-> shownHidden]

\* Agent.run with needsInput = false before the service call.
NeedsInputCleared == FALSE

\* Agent.run without its needsInput = true.
NeedsInputNotSet == needsInput

\* needsInput = true, before every service call
NeedsInputBeforeCall == TRUE

\* Agent.run without its needsInput = false.
NeedsInputNotCleared == needsInput

\* needsInput = false, after a tool_use block has been executed
NeedsInputAfterTool == FALSE

\* messages: only the last message of the conversation.
RequestOfLastMessage(conv) ==
    [messages |-> IF conv = <<>> THEN conv ELSE <<conv[Len(conv)]>>,
     tools |-> toParam]

\* The argument of llm.messages.create
Request(conv) == [messages |-> conv, tools |-> toParam]

\* The service call of one iteration, up to its await.
CallService(conv, tr, fl, m) ==
    /\ needsInput' = NeedsInputBeforeCall
    /\ requests' = Append(requests, Request(conv))
    /\ requestsHidden' = Append(requestsHidden, Request(m.conv))
    /\ conversation' = conv
    /\ conversationHidden' = m.conv
    /\ shown' = m.shown
    /\ shownHidden' = m.shownH
    /\ pc' = "llm"
    /\ inflight' = fl \cup { Pending("llm", tr) }
    /\ trace' = Append(tr, Event("call", NoId))

\* if (needsInput): getUserInput is called and awaited.
AcquireInput(ni, conv, tr, fl, m) ==
    /\ pc' = "input"
    /\ needsInput' = ni
    /\ conversation' = conv
    /\ conversationHidden' = m.conv
    /\ shown' = m.shown
    /\ shownHidden' = m.shownH
    /\ requests' = requests
    /\ requestsHidden' = requestsHidden
    /\ inflight' = fl \cup { Pending("input", tr) }
    /\ trace' = Append(tr, Event("input", NoId))

\* The while loop calling the service without ever acquiring input.
LoopTopNeverPrompts(ni, conv, tr, fl, m) == CallService(conv, tr, fl, m)

\* The while loop acquiring input in every iteration.
LoopTopAlwaysPrompts(ni, conv, tr, fl, m) == AcquireInput(ni, conv, tr, fl, m)

\* The while loop returning once a response without tool_use has been
\* processed.
LoopTopReturns(ni, conv, tr, fl, m) ==
    IF ni
    THEN IF conv = <<>>
         THEN AcquireInput(ni, conv, tr, fl, m)
         ELSE /\ pc' = "terminated"
              /\ needsInput' = ni
              /\ conversation' = conv
              /\ conversationHidden' = m.conv
              /\ shown' = m.shown
              /\ shownHidden' = m.shownH
              /\ requests' = requests
              /\ requestsHidden' = requestsHidden
              /\ inflight' = fl
              /\ trace' = tr
    ELSE CallService(conv, tr, fl, m)

\* The head of the while loop, up to its first await.
LoopTop(ni, conv, tr, fl, m) ==
    IF ni THEN AcquireInput(ni, conv, tr, fl, m)
    ELSE CallService(conv, tr, fl, m)

\* The for loop leaving the response once a tool has been executed.
ForStepBreak(resp, i, ni, conv, tr, fl, m) ==
    IF i <= Len(resp) /\ ni
    THEN /\ pc' = "show"
         /\ idx' = i
         /\ needsInput' = ni
         /\ conversation' = conv
         /\ conversationHidden' = m.conv
         /\ shown' = showContent(m.shown, resp[i], FALSE)
         /\ shownHidden' = showContent(m.shownH, resp[i], TRUE)
         /\ requests' = requests
         /\ requestsHidden' = requestsHidden
         /\ inflight' = fl
         /\ trace' = tr
    ELSE /\ idx' = i
         /\ LoopTop(ni, conv, tr, fl, m)

\* The for loop over response.content at block i, up to its first await:
\* the block is handed to the display.
ForStep(resp, i, ni, conv, tr, fl, m) ==
    IF i <= Len(resp)
    THEN /\ pc' = "show"
         /\ idx' = i
         /\ needsInput' = ni
         /\ conversation' = conv
         /\ conversationHidden' = m.conv
         /\ shown' = showContent(m.shown, resp[i], FALSE)
         /\ shownHidden' = showContent(m.shownH, resp[i], TRUE)
         /\ requests' = requests
         /\ requestsHidden' = requestsHidden
         /\ inflight' = fl
         /\ trace' = tr
    ELSE /\ idx' = i
         /\ LoopTop(ni, conv, tr, fl, m)

\* agent.run() is called
Start ==
    /\ pc = "init"
    /\ LoopTop(needsInput, conversation, trace, inflight, Mirror)
    /\ UNCHANGED <<fallback, remoteCalls, toolbox, contents, stdinDone, response, idx, exec, fault, showing>>

\* getUserInput resolves
InputResolves(in) ==
    /\ pc = "input"
    /\ contents' = AfterPop(contents)
    /\ stdinDone' = in.stdinDone
    /\ CallService(appendUserInput(conversation, in.inputMessage),
                   Append(trace, Event("line", NoId)),
                   Settled("input"),
                   [Mirror EXCEPT !.conv =
                       appendUserInput(conversationHidden, in.inputMessage)])
    /\ UNCHANGED <<fallback, remoteCalls, toolbox, response, idx, exec, fault, showing>>

\* getUserInput rejects: the console iterator fails, directly or as the
\* fallback of getUserInputFromFile, or getUserInputFromFile without
\* fallback rejects with "EOF"
InputRejects ==
    /\ pc = "input"
    /\ ~Truthy(Popped(contents))
    /\ contents' = AfterPop(contents)
    /\ pc' = "terminated"
    /\ fault' = "input"
    /\ inflight' = Settled("input")
    /\ UNCHANGED <<fallback, remoteCalls, toolbox, stdinDone, conversation, needsInput, response, idx,
                   exec, requests, trace, shown, showing, conversationHidden,
                   requestsHidden, shownHidden>>

\* llm.messages.create resolves, the response handed to the for loop without
\* having been appended.
ServiceResolvesUnappended(resp) ==
    /\ pc = "llm"
    /\ response' = resp
    /\ ForStep(resp, 1, needsInput, conversation,
               Append(trace, Event("response", NoId)),
               Settled("llm"), Mirror)
    /\ UNCHANGED <<fallback, remoteCalls, toolbox, contents, stdinDone, exec, fault, showing>>

\* llm.messages.create resolves
ServiceResolves(resp) ==
    /\ pc = "llm"
    /\ response' = resp
    /\ ForStep(resp, 1, needsInput,
               appendToConversation(conversation, "assistant", resp),
               Append(trace, Event("response", NoId)),
               Settled("llm"),
               [Mirror EXCEPT !.conv =
                   appendToConversation(conversationHidden, "assistant", resp)])
    /\ UNCHANGED <<fallback, remoteCalls, toolbox, contents, stdinDone, exec, fault, showing>>

\* A rejected llm.messages.create answered by issuing the call again.
ServiceRetries ==
    /\ pc = "llm"
    /\ CallService(conversation, trace, Settled("llm"), Mirror)
    /\ UNCHANGED <<fallback, remoteCalls, toolbox, contents, stdinDone, response, idx, exec, fault, showing>>

\* llm.messages.create rejects
ServiceRejects ==
    /\ pc = "llm"
    /\ pc' = "terminated"
    /\ fault' = "llm"
    /\ inflight' = Settled("llm")
    /\ UNCHANGED <<fallback, remoteCalls, toolbox, contents, stdinDone, conversation, needsInput,
                   response, idx, exec, requests, trace, shown, showing,
                   conversationHidden, requestsHidden, shownHidden>>

\* await this.showContent(content) resolves for a text block
ShownText ==
    /\ pc = "show"
    /\ response[idx].type # "tool_use"
    /\ ForStep(response, idx + 1, needsInput, conversation, trace, inflight, Mirror)
    /\ UNCHANGED <<fallback, remoteCalls, toolbox, contents, stdinDone, response, exec, fault, showing>>

\* executeTool called without await: the for loop goes on at once.
ShownToolUseNoAwait ==
    /\ pc = "show"
    /\ response[idx].type = "tool_use"
    /\ \E e \in ExecStarts(response[idx]) :
         /\ exec' = e
         /\ remoteCalls' = remoteCalls \o Sent(e)
         /\ ForStep(response, idx + 1, FALSE, conversation,
                    Append(trace, Event("exec", response[idx].id)),
                    inflight \cup { Pending("tool", trace) }, Mirror)
    /\ UNCHANGED <<fallback, toolbox, contents, stdinDone, response, fault, showing>>

\* await this.showContent(content) resolves for a tool_use block:
\* executeTool is called
ShownToolUse ==
    /\ pc = "show"
    /\ response[idx].type = "tool_use"
    /\ \E e \in ExecStarts(response[idx]) :
         /\ exec' = e
         /\ remoteCalls' = remoteCalls \o Sent(e)
         /\ inflight' = IF e.kind = "unknown" \/ (e.kind = "local" /\ ~e.spawned)
                        THEN inflight
                        ELSE inflight \cup { Pending("tool", trace) }
    /\ pc' = "exec"
    /\ trace' = Append(trace, Event("exec", response[idx].id))
    /\ UNCHANGED <<fallback, toolbox, contents, stdinDone, conversation, needsInput,
                   response, idx, fault, requests, shown, showing,
                   conversationHidden, requestsHidden, shownHidden>>

\* The runtime sees the spawned process exit.
ProcessExits ==
    /\ pc = "exec"
    /\ exec.kind = "local"
    /\ exec.spawned
    /\ ~exec.exited
    /\ exec' = [exec EXCEPT !.exited = TRUE]
    /\ UNCHANGED <<fallback, remoteCalls, toolbox, contents, stdinDone, conversation, needsInput, pc,
                   response, idx, fault, inflight, requests, trace, shown,
                   showing, conversationHidden, requestsHidden, shownHidden>>

\* The display completes an operation Agent.run did not await (the process
\* is gone once the promise of Agent.run has been rejected).
DisplayCompletes ==
    /\ pc # "terminated"
    /\ \E id \in showing : showing' = showing \ {id}
    /\ UNCHANGED <<fallback, remoteCalls, toolbox, contents, stdinDone, conversation, needsInput, pc,
                   response, idx, exec, fault, inflight, requests, trace, shown,
                   conversationHidden, requestsHidden, shownHidden>>

\* The rest of the tool_use branch once executeTool has resolved: the
\* results are handed to the display without await and appended to the log.
AfterTool(toolResult) ==
    /\ exec' = NoExec
    /\ \E left \in UnawaitedShows(toolResult) : showing' = showing \cup left
    /\ ForStep(response, idx + 1, NeedsInputAfterTool,
               recordToolResult(conversation, toolResult, FALSE),
               Append(trace, Event("ret", response[idx].id)),
               Settled("tool"),
               [conv |-> recordToolResult(conversationHidden, toolResult, TRUE),
                shown |-> showResults(shown, toolResult, FALSE),
                shownH |-> showResults(shownHidden, toolResult, TRUE)])
    /\ UNCHANGED <<fallback, remoteCalls, toolbox, contents, stdinDone, response, fault>>

\* executeTool resolves for a name the toolbox does not know
UnknownToolReturns ==
    /\ pc = "exec"
    /\ exec.kind = "unknown"
    /\ AfterTool(UnsupportedToolResult(response[idx]))

\* RunTerminalTool.execute resolves: the read of proc.stdout is complete
RunTerminalReturns ==
    /\ pc = "exec"
    /\ exec.kind = "local"
    /\ exec.spawned
    /\ AfterTool(RunTerminalResult(response[idx], exec))

\* MCPTool.execute resolves: callTool has replied
MCPReturns ==
    /\ pc = "exec"
    /\ exec.kind = "mcp"
    /\ exec.reply # "reject"
    /\ AfterTool(MCPResult(response[idx], exec))

\* A rejected tool.execute turned into an error result by executeTool.
ToolRejectsReported ==
    /\ pc = "exec"
    /\ \/ exec.kind = "local" /\ ~exec.spawned
       \/ exec.kind = "mcp" /\ exec.reply = "reject"
    /\ AfterTool(UnsupportedToolResult(response[idx]))

\* tool.execute rejects: Bun.spawn throws, or callTool rejects
ToolRejects ==
    /\ pc = "exec"
    /\ \/ exec.kind = "local" /\ ~exec.spawned
       \/ exec.kind = "mcp" /\ exec.reply = "reject"
    /\ pc' = "terminated"
    /\ fault' = "tool"
    /\ inflight' = Settled("tool")
    /\ UNCHANGED <<fallback, remoteCalls, toolbox, contents, stdinDone, conversation, needsInput,
                   response, idx, exec, requests, trace, shown, showing,
                   conversationHidden, requestsHidden, shownHidden>>

\* The service answers the pending call with one of the responses the
\* bounds leave it.
ServiceAnswers ==
    /\ Len(requests) <= MaxCalls
    /\ \E resp \in Responses(Len(requests),
                             MaxBlocks - BlocksReturned(conversation)) :
         ServiceResolves(resp)

\* The input source yields what it has.
InputArrives == \E in \in getUserInputFromFile : InputResolves(in)

\* The agent as its constructor leaves it, before run() is called.
AgentConstructed ==
    /\ stdinDone = FALSE
    /\ conversation = <<>>
    /\ needsInput = TRUE
    /\ pc = "init"
    /\ response = <<>>
    /\ idx = 0
    /\ exec = NoExec
    /\ fault = "none"
    /\ inflight = {}
    /\ requests = <<>>
    /\ trace = <<>>
    /\ shown = <<>>
    /\ showing = {}
    /\ conversationHidden = <<>>
    /\ requestsHidden = <<>>
    /\ shownHidden = <<>>

\* The state when agent.run() is called: the toolbox built from what the
\* provider lists, the prompt file read if --prompt names one.
Init ==
    /\ fallback = TRUE
    /\ toolbox \in { BuildToolbox(defs) : defs \in ProviderToolLists }
    /\ contents \in { <<>> } \cup { <<f>> : f \in PromptFiles }
    /\ remoteCalls = <<>>
    /\ AgentConstructed

\* The state when agent.run() is called in a start without --prompt: the
\* input source is getUserInputFromStdin().
InitStdin ==
    /\ fallback = TRUE
    /\ toolbox \in { BuildToolbox(defs) : defs \in ProviderToolLists }
    /\ contents = <<>>
    /\ remoteCalls = <<>>
    /\ AgentConstructed

\* The same for step5 started with --prompt: the input source is
\* getUserInputFromFile(values.prompt), which has no fallback.
InitStep5 ==
    /\ fallback = FALSE
    /\ toolbox \in { BuildToolbox(defs) : defs \in ProviderToolLists }
    /\ contents \in { <<f>> : f \in PromptFiles }
    /\ remoteCalls = <<>>
    /\ AgentConstructed

Next ==
    \/ Start
    \/ InputArrives
    \/ InputRejects
    \/ ServiceAnswers
    \/ ServiceRejects
    \/ ShownText
    \/ ShownToolUse
    \/ ProcessExits
    \/ DisplayCompletes
    \/ UnknownToolReturns
    \/ RunTerminalReturns
    \/ MCPReturns
    \/ ToolRejects

Spec == Init /\ [][Next]_vars

SpecStep5 == InitStep5 /\ [][Next]_vars

\* The runtime runs every continuation that is ready: the one that starts
\* Agent.run, and the ones behind the awaits of the display and of an
\* execution that has settled.  Nothing is assumed of the input source and
\* of the service.  The program is started without --prompt.
FairSpec ==
    /\ InitStdin
    /\ [][Next]_vars
    /\ WF_vars(Start \/ ShownText \/ ShownToolUse \/ UnknownToolReturns
                     \/ RunTerminalReturns \/ MCPReturns \/ ToolRejects)

----------------------------------------------------------------------------
(* Reading the log and the trace *)

IsAssistant(turn) == turn.role = "assistant"
IsUserText(turn) == turn.role = "user" /\ "text" \in DOMAIN turn
IsUserInput(turn) == turn.role = "user" /\ "blocks" \notin DOMAIN turn
IsToolResults(turn) == turn.role = "user" /\ "blocks" \in DOMAIN turn

IsToolUse(b) == b.type = "tool_use"
ToolUses(blocks) == SelectSeq(blocks, IsToolUse)

IsError(r) == "is_error" \in DOMAIN r /\ r.is_error

Last(s) == s[Len(s)]

\* Position of the last Assistant turn of the log, 0 when there is none.
LastAssistant(conv) ==
    LET ps == { p \in 1..Len(conv) : IsAssistant(conv[p]) }
    IN IF ps = {} THEN 0 ELSE CHOOSE p \in ps : \A q \in ps : q <= p

\* The k-th Assistant turn of the log: the response to the k-th service call.
AssistantPos(conv, k) ==
    CHOOSE p \in 1..Len(conv) :
        /\ IsAssistant(conv[p])
        /\ Cardinality({ q \in 1..p : IsAssistant(conv[q]) }) = k

NumResponses == Cardinality({ p \in 1..Len(conversation) : IsAssistant(conversation[p]) })

\* Position in the trace of the k-th service call.
CallPos(k) ==
    CHOOSE j \in 1..Len(trace) :
        /\ trace[j].ev = "call"
        /\ Cardinality({ i \in 1..j : trace[i].ev = "call" }) = k

\* The for loop over the response at position p of the log has run to its end.
Completed(p) ==
    \/ p < LastAssistant(conversation)
    \/ pc \in {"input", "llm"}
    \/ pc = "terminated" /\ fault # "tool"

\* The turns the log holds after position p.
After(conv, p) == SubSeq(conv, p + 1, Len(conv))

\* The events of the trace since the last response arrived.
SinceResponse ==
    LET rs == { j \in 1..Len(trace) : trace[j].ev = "response" }
        r == IF rs = {} THEN 0 ELSE CHOOSE j \in rs : \A i \in rs : i <= j
    IN SubSeq(trace, r + 1, Len(trace))

IsExecOrRet(e) == e.ev \in {"exec", "ret"}
IsExec(e) == e.ev = "exec"
IsRet(e) == e.ev = "ret"

----------------------------------------------------------------------------
(* Claims *)

\* C1: once the dispatches of a response with k >= 1 tool_use blocks are
\* complete, the turn right after its Assistant turn is a User turn holding
\* exactly the k tool results, in invocation order, each with the id of its
\* invocation.
C1_ResultsInNextTurn ==
    \A p \in 1..Len(conversation) :
        ( /\ IsAssistant(conversation[p])
          /\ ToolUses(conversation[p].blocks) # <<>>
          /\ Completed(p) )
        => /\ p + 1 <= Len(conversation)
           /\ IsToolResults(conversation[p + 1])
           /\ LET uses == ToolUses(conversation[p].blocks)
                  results == conversation[p + 1].blocks
              IN /\ Len(results) = Len(uses)
                 /\ \A j \in 1..Len(uses) :
                      /\ results[j].type = "tool_result"
                      /\ results[j].tool_use_id = uses[j].id

\* C2: the log is append-only: no step shortens it or changes a turn it holds.
C2_AppendOnly ==
    [][ /\ Len(conversation') >= Len(conversation)
        /\ \A i \in 1..Len(conversation) : conversation'[i] = conversation[i]
      ]_vars

\* The log holds a user input, a response and a tool-result turn.
C2_Witness ==
    /\ Len(conversation) >= 3
    /\ \E i \in 1..Len(conversation) : IsUserText(conversation[i])
    /\ \E i \in 1..Len(conversation) : IsAssistant(conversation[i])
    /\ \E i \in 1..Len(conversation) : IsToolResults(conversation[i])

\* C3: after a response without tool_use blocks, an input line is acquired
\* and appended as a User turn before the next service call is issued.
C3_InputBeforeNextCall ==
    \A k \in 1..(Len(requests) - 1) :
        ToolUses(conversation[AssistantPos(conversation, k)].blocks) = <<>>
        => /\ \E j \in (CallPos(k) + 1)..(CallPos(k + 1) - 1) : trace[j].ev = "line"
           /\ IsUserInput(Last(requests[k + 1].messages))
           /\ Len(requests[k + 1].messages) = AssistantPos(conversation, k) + 1

\* A second call has been issued after a response without tool_use blocks.
C3_Witness ==
    /\ Len(requests) >= 2
    /\ ToolUses(conversation[AssistantPos(conversation, 1)].blocks) = <<>>

\* C4: after a response with a tool_use block whose dispatches completed, the
\* next service call is issued without an input acquisition, and no User text
\* turn lies between the tool results and that call.
C4_Continuing ==
    /\ \A k \in 1..(Len(requests) - 1) :
         LET p == AssistantPos(conversation, k)
         IN ToolUses(conversation[p].blocks) # <<>>
            => /\ \A j \in (CallPos(k) + 1)..(CallPos(k + 1) - 1) :
                    trace[j].ev \notin {"input", "line"}
               /\ \A q \in (p + 1)..Len(requests[k + 1].messages) :
                    IsToolResults(requests[k + 1].messages[q])
    /\ (pc = "input" /\ LastAssistant(conversation) > 0)
       => ToolUses(conversation[LastAssistant(conversation)].blocks) = <<>>

\* A second call has been issued after a response with a tool_use block.
C4_Witness ==
    /\ Len(requests) >= 2
    /\ ToolUses(conversation[AssistantPos(conversation, 1)].blocks) # <<>>
    /\ IsToolResults(Last(requests[2].messages))

\* C5: the results of a response with k >= 1 tool_use blocks are appended as
\* exactly one User turn once every block has been processed: no turn is
\* appended while blocks of the response are unprocessed, and the iteration
\* grows the log by two turns whatever k is.
C5_OneResultTurn ==
    /\ pc \in {"show", "exec"} => Len(conversation) = LastAssistant(conversation)
    /\ LET p == LastAssistant(conversation)
       IN (p > 0 /\ pc = "llm" /\ ToolUses(conversation[p].blocks) # <<>>)
          => Len(conversation) = p + 1

\* C6: dispatching a tool_use block whose name no registered tool has never
\* raises: the step yields one tool result with is_error true, the id of the
\* invocation and a message holding the name, appends it to the log and
\* leaves the loop running; after the last block the next service call is
\* issued.
C6_UnknownTool ==
    [][ (pc = "exec" /\ pc' # "exec" /\ find(response[idx].name) = Undefined)
        => /\ \E r \in { [type |-> "tool_result",
                          tool_use_id |-> response[idx].id,
                          is_error |-> TRUE,
                          content |-> <<"Unsupported tool: ", response[idx].name>>] } :
                conversation' = Append(conversation,
                                       [role |-> "user", blocks |-> <<r>>])
           /\ pc' # "terminated"
           /\ fault' = "none"
           /\ idx = Len(response)
              => (pc' = "llm" /\ Len(requests') = Len(requests) + 1)
      ]_vars

\* The result of an unknown tool is the last turn of the log and the next
\* service call is pending.
C6_Witness ==
    /\ pc = "llm"
    /\ conversation # <<>>
    /\ IsToolResults(Last(conversation))
    /\ Last(conversation).blocks[1].content[1] = "Unsupported tool: "
    /\ Last(requests).messages = conversation

\* The tool execution in flight has failed: the process exits non-zero, or
\* the provider's reply is flagged as an error.
ExecutionFailed ==
    \/ exec.kind = "local" /\ exec.spawned /\ exec.status # 0
    \/ exec.kind = "mcp" /\ exec.reply = "error"

\* C7: a failed tool execution is reported as a tool result with is_error
\* true that is appended to the log, it does not end the loop, and the
\* request of the next service call holds it.
C7_ToolFailureReported ==
    [][ /\ (pc = "exec" /\ ExecutionFailed /\ pc' # "exec")
           => /\ pc' # "terminated"
              /\ fault' = "none"
              /\ Len(conversation') = Len(conversation) + 1
              /\ IsToolResults(Last(conversation'))
              /\ Len(Last(conversation').blocks) = 1
              /\ Last(conversation').blocks[1].type = "tool_result"
              /\ Last(conversation').blocks[1].tool_use_id = response[idx].id
              /\ IsError(Last(conversation').blocks[1])
        /\ (pc' = "llm" /\ pc # "llm")
           => Last(requests').messages = conversation'
      ]_vars

\* The next service call is pending with a history that ends in the error
\* result of a provider reply flagged as an error.
C7_Witness ==
    /\ pc = "llm"
    /\ conversation # <<>>
    /\ IsToolResults(Last(conversation))
    /\ IsError(Last(conversation).blocks[1])
    /\ Last(conversation).blocks[1].content[1] = "reply"
    /\ Last(requests).messages = conversation

\* C8: a failed service call ends Agent.run: the call is not retried, no
\* Assistant turn is appended for it, nothing happens afterwards, and no two
\* calls carry the same history.
C8_ServiceFailureFatal ==
    [][ /\ pc # "terminated"
        /\ (pc = "llm" /\ <<pc, conversation, requests>>' # <<pc, conversation, requests>>)
           => \/ /\ pc' = "terminated"
                 /\ fault' = "llm"
                 /\ conversation' = conversation
                 /\ requests' = requests
                 /\ trace' = trace
                 /\ inflight' = {}
              \/ /\ conversation' = Append(conversation,
                                           [role |-> "assistant", blocks |-> response'])
                 /\ requests' = requests
        /\ \A i, j \in 1..Len(requests') :
             i # j => requests'[i].messages # requests'[j].messages
      ]_vars

\* The second service call has failed.
C8_Witness ==
    /\ pc = "terminated"
    /\ fault = "llm"
    /\ Len(requests) = 2
    /\ Len(conversation) >= 3

\* The ids of the tool_use blocks among the first m blocks of the response.
UseIds(m) ==
    LET uses == ToolUses(SubSeq(response, 1, m))
    IN [j \in 1..Len(uses) |-> uses[j].id]

\* How many blocks of the response the for loop has dispatched.
Dispatched ==
    CASE pc = "show" -> idx - 1
      [] pc = "exec" -> idx
      [] pc = "terminated" /\ fault = "tool" -> idx
      [] OTHER -> Len(response)

\* The tool-result turns the log holds after its last Assistant turn.
ResultTurns ==
    IF LastAssistant(conversation) = 0 THEN <<>>
    ELSE SelectSeq(After(conversation, LastAssistant(conversation)), IsToolResults)

\* C9: the invocations of a response are executed one after the other in
\* response order, each once, an error result skips none, and the results
\* enter the log in the order of the invocations.
C9_SequentialInOrder ==
    LET evs == SelectSeq(SinceResponse, IsExecOrRet)
        starts == SelectSeq(SinceResponse, IsExec)
        rets == SelectSeq(SinceResponse, IsRet)
        results == ResultTurns
    IN /\ \A j \in 1..Len(evs) :
            IF j % 2 = 1
            THEN evs[j].ev = "exec"
            ELSE evs[j].ev = "ret" /\ evs[j].id = evs[j - 1].id
       /\ [j \in 1..Len(starts) |-> starts[j].id] = UseIds(Dispatched)
       /\ Len(rets) = Len(results)
       /\ \A j \in 1..Len(rets) :
            /\ Len(results[j].blocks) = 1
            /\ results[j].blocks[1].tool_use_id = rets[j].id
       /\ Completed(LastAssistant(conversation))
          => [j \in 1..Len(rets) |-> rets[j].id] = UseIds(Len(response))

\* A response with two invocations has been processed to its end, the first
\* invocation having given an error result.
C9_Witness ==
    LET results == ResultTurns
    IN /\ pc = "llm"
       /\ Len(ToolUses(response)) >= 2
       /\ Len(results) >= 2
       /\ IsError(results[1].blocks[1])

\* C10: at most one of input acquisition, service call and tool execution is
\* in flight, and while a request stays pending no step appends to the log
\* or issues another request.
C10_OneActivity ==
    [][ /\ Cardinality(inflight') <= 1
        /\ \A p \in inflight :
             p \in inflight'
             => /\ conversation' = conversation
                /\ requests' = requests
                /\ trace' = trace
                /\ inflight' = inflight
      ]_vars

\* The second tool execution of a response is in flight, alone.
C10_Witness ==
    /\ pc = "exec"
    /\ idx >= 2
    /\ Len(conversation) > LastAssistant(conversation)
    /\ inflight = { p \in inflight : p.kind = "tool" }
    /\ Cardinality(inflight) = 1

\* C11: RunTerminalTool.execute returns one tool result whose content is the
\* captured standard output and whose is_error is true exactly when the exit
\* status of the process is non-zero, whether or not the runtime has seen
\* the exit when the read of standard output resolves.
C11_ErrorIffNonZeroExit ==
    [][ (pc = "exec" /\ exec.kind = "local" /\ exec.spawned /\ pc' # "exec")
        => /\ Len(conversation') = Len(conversation) + 1
           /\ Len(Last(conversation').blocks) = 1
           /\ Last(conversation').blocks[1].tool_use_id = response[idx].id
           /\ Last(conversation').blocks[1].content = <<"stdout">>
           /\ Last(conversation').blocks[1].is_error = (exec.status # 0)
      ]_vars

C13_Scenario ==
    /\ NumResponses = 2
    /\ IsUserText(conversation[1])
    /\ LET first == ToolUses(conversation[AssistantPos(conversation, 1)].blocks)
           second == conversation[AssistantPos(conversation, 2)].blocks
       IN /\ Len(first) = 1
          /\ find(first[1].name) # Undefined
          /\ \E j \in 1..Len(trace) : trace[j] = Event("ret", first[1].id)
          /\ second # <<>>
          /\ ToolUses(second) = <<>>

\* C13: after one user input, a response with one tool_use of a registered
\* tool that returns, and a text-only response, the log holds exactly the
\* four turns User text, Assistant tool-use, User tool-result, Assistant text;
\* no input is acquired between the two calls, and the first thing Agent.run
\* does once the second response is processed is to acquire input.
C13_EndToEnd ==
    C13_Scenario
    => /\ Len(conversation) >= 4
       /\ IsUserText(conversation[1])
       /\ IsAssistant(conversation[2])
       /\ Len(ToolUses(conversation[2].blocks)) = 1
       /\ IsToolResults(conversation[3])
       /\ Len(conversation[3].blocks) = 1
       /\ conversation[3].blocks[1].tool_use_id = ToolUses(conversation[2].blocks)[1].id
       /\ IsAssistant(conversation[4])
       /\ ToolUses(conversation[4].blocks) = <<>>
       /\ Len(requests) = 2 => Len(conversation) = 4
       /\ \A j \in (CallPos(1) + 1)..(CallPos(2) - 1) :
            trace[j].ev \notin {"input", "line"}
       /\ pc # "show" => (SinceResponse # <<>> /\ SinceResponse[1].ev = "input")

\* The scenario has run with a successful execution and Agent.run waits for
\* the next input, the log holding four turns.
C13_Witness ==
    /\ C13_Scenario
    /\ pc = "input"
    /\ Len(conversation) = 4
    /\ ~IsError(conversation[3].blocks[1])

\* Agent.run can go on by itself: a continuation that waits for none of input
\* acquisition, service call and tool execution is ready to run.
CanStep ==
    ENABLED (Start \/ ShownText \/ ShownToolUse \/ UnknownToolReturns \/ ToolRejects)

\* C14: Agent.run is terminated only by an error raised by input acquisition,
\* the service call or a tool execution; as long as none has raised, it waits
\* for one of these activities or can take a further step.
C14_NoNormalTermination ==
    /\ pc = "terminated" => fault \in {"input", "llm", "tool"}
    /\ pc # "terminated"
       => /\ fault = "none"
          /\ \/ \E p \in inflight : p.kind \in {"input", "llm", "tool"}
             \/ CanStep

\* Two responses have been processed to their end, the second without a tool
\* use, and Agent.run is in its next iteration.
C14_Witness ==
    /\ NumResponses = 2
    /\ ToolUses(conversation[AssistantPos(conversation, 2)].blocks) = <<>>
    /\ pc = "input"
    /\ fault = "none"

\* C15: every service call is issued with the whole log as it stands at the
\* call, every turn appended so far in append order, and with one definition
\* per registered tool in registration order; the toolbox never changes, so
\* the definitions are the same at every call.
C15_FullHistoryAndTools ==
    [][ /\ toolbox' = toolbox
        /\ requests' # requests
           => /\ Len(requests') = Len(requests) + 1
              /\ SubSeq(requests', 1, Len(requests)) = requests
              /\ Last(requests').messages = conversation'
              /\ SubSeq(conversation', 1, Len(conversation)) = conversation
              /\ Len(Last(requests').tools) = Len(toolbox)
              /\ \A i \in 1..Len(toolbox) :
                   Last(requests').tools[i] = toolbox[i].name
              /\ \A k \in 1..Len(requests) :
                   requests[k].tools = Last(requests').tools
      ]_vars

\* A second call has been issued, carrying a user input, an Assistant turn
\* and a tool-result turn, and the definitions of both tools.
C15_Witness ==
    /\ Len(requests) = 2
    /\ Len(requests[2].messages) = 3
    /\ IsUserInput(requests[2].messages[1])
    /\ IsAssistant(requests[2].messages[2])
    /\ IsToolResults(requests[2].messages[3])
    /\ Len(requests[2].tools) = 2
    /\ requests[1].tools = requests[2].tools

\* C16: no two tools of the toolbox have the same name, so that find can
\* match at most one tool.
C16_NamesUnique ==
    \A i, j \in 1..Len(toolbox) : toolbox[i].name = toolbox[j].name => i = j

\* The blocks of the Assistant turns of a log, in log order.
RECURSIVE AssistantBlocks(_)
AssistantBlocks(conv) ==
    IF conv = <<>> THEN <<>>
    ELSE IF IsAssistant(conv[1])
         THEN conv[1].blocks \o AssistantBlocks(Tail(conv))
         ELSE AssistantBlocks(Tail(conv))

\* The ids of the tool_use blocks of a turn.
TurnUseIds(turn) ==
    { turn.blocks[i].id : i \in { i \in 1..Len(turn.blocks) : IsToolUse(turn.blocks[i]) } }

\* The blocks of responses handed to the display so far.
ShownOfResponses == SelectSeq(shown, LAMBDA b : b.type # "tool_result")

\* C17: while a response is processed its whole block list is the last
\* Assistant turn of the log; every block shown and every tool_use executed
\* is already in the log, and every tool-result turn follows the Assistant
\* turn holding the tool_use it answers.
C17_AppendedWholeFirst ==
    /\ pc \in {"show", "exec"}
       => /\ LastAssistant(conversation) > 0
          /\ conversation[LastAssistant(conversation)].blocks = response
    /\ LET blocks == AssistantBlocks(conversation)
           forwarded == ShownOfResponses
       IN /\ Len(forwarded) <= Len(blocks)
          /\ forwarded = SubSeq(blocks, 1, Len(forwarded))
    /\ LET logged == UNION { TurnUseIds(conversation[p]) :
                             p \in { p \in 1..Len(conversation) :
                                       IsAssistant(conversation[p]) } }
       IN \A j \in 1..Len(trace) : trace[j].ev = "exec" => trace[j].id \in logged
    /\ \A q \in 1..Len(conversation) :
         IsToolResults(conversation[q])
         => \A r \in 1..Len(conversation[q].blocks) :
              \E p \in 1..(q - 1) :
                 /\ IsAssistant(conversation[p])
                 /\ conversation[q].blocks[r].tool_use_id \in TurnUseIds(conversation[p])

\* The second block of a response of two is being executed, the first having
\* been shown, and the whole response is the last turn of the log.
C17_Witness ==
    /\ pc = "exec"
    /\ idx = 2
    /\ Len(response) = 2
    /\ Last(conversation) = [role |-> "assistant", blocks |-> response]
    /\ Len(ShownOfResponses) = 2

\* C18: the display is called for one block at a time, in processing order:
\* a tool_use block has been shown when its execution starts, and whenever
\* the next block of a response is handed to the display or a tool execution
\* starts, the display of every tool result shown before has completed.
C18_ResultShownBeforeNext ==
    [][ /\ (pc = "show" /\ pc' = "exec")
           => /\ shown # <<>>
              /\ Last(shown) = response[idx]
              /\ showing = {}
        /\ Len(ShownOfResponses') > Len(ShownOfResponses)
           => showing' = {}
      ]_vars

\* C19: once the console iterator has reported done, Agent.run suspends or
\* fails: no step appends a further User input turn to the log and no step
\* issues a further service call.
C19_NothingAfterExhaustion ==
    [][ stdinDone'
        => /\ requests' = requests
           /\ Len(conversation') > Len(conversation)
              => ~IsUserInput(Last(conversation'))
      ]_vars

\* C20: with a prompt file, the first acquisition resolves to the text of the
\* file, whatever it is, without consulting the fallback, and the text is
\* given out once; every later acquisition resolves or fails as the console
\* source does.
C20_FileTextFirst ==
    [][ (pc = "input" /\ pc' # "input")
        => IF contents # <<>>
           THEN /\ conversation' =
                     Append(conversation, [role |-> "user", text |-> contents[1]])
                /\ contents' = <<>>
                /\ stdinDone' = stdinDone
           ELSE /\ contents' = <<>>
                /\ \/ pc' = "terminated" /\ fault' = "input"
                   \/ \E in \in getUserInputFromStdin :
                        /\ conversation' = appendUserInput(conversation, in.inputMessage)
                        /\ stdinDone' = in.stdinDone
      ]_vars

\* C21: in step5 with a prompt file the first acquisition resolves to the
\* text of the file and the second rejects: Agent.run terminates the first
\* time a response holds no tool_use block, that Assistant turn being the
\* last of the log, and no service call is issued afterwards.
C21_FileExhaustionFatal ==
    [][ /\ (pc = "input" /\ pc' # "input" /\ contents # <<>>)
           => /\ conversation' = <<[role |-> "user", text |-> contents[1]]>>
              /\ contents' = <<>>
              /\ pc' = "llm"
        /\ (pc = "input" /\ pc' # "input" /\ contents = <<>>)
           => /\ pc' = "terminated"
              /\ fault' = "input"
              /\ conversation' = conversation
              /\ IsAssistant(Last(conversation))
              /\ ToolUses(Last(conversation).blocks) = <<>>
              /\ requests' = requests
        /\ \A p \in 1..Len(conversation') :
             (IsAssistant(conversation'[p]) /\ ToolUses(conversation'[p].blocks) = <<>>)
             => p = Len(conversation')
        /\ pc = "terminated" => requests' = requests
      ]_vars

\* C22: MCPTool.execute sends exactly one callTool per invocation, with the
\* name and the input of the tool_use block, and returns one tool result
\* with the id of the block and the content of the reply, is_error true for
\* a reply flagged as error and false for one flagged as no error.
C22_RemoteCallMapsReply ==
    [][ /\ IF pc = "show" /\ pc' = "exec" /\ exec'.kind = "mcp"
           THEN remoteCalls' = Append(remoteCalls,
                                      [name |-> response[idx].name,
                                       arguments |-> response[idx].input])
           ELSE remoteCalls' = remoteCalls
        /\ (pc = "exec" /\ exec.kind = "mcp" /\ pc' \notin {"exec", "terminated"})
           => /\ Len(conversation') = Len(conversation) + 1
              /\ IsToolResults(Last(conversation'))
              /\ Len(Last(conversation').blocks) = 1
              /\ LET r == Last(conversation').blocks[1]
                 IN /\ r.tool_use_id = response[idx].id
                    /\ r.content = exec.content
                    /\ exec.reply = "error" => (r.is_error = TRUE)
                    /\ exec.reply = "ok" => (r.is_error = FALSE)
      ]_vars

\* Two invocations of the MCP tool have been answered, one by a reply
\* flagged as error and one by a reply flagged as no error, with one
\* callTool each.
C22_Witness ==
    /\ Len(remoteCalls) = 2
    /\ pc # "exec"
    /\ \E p, q \in 1..Len(conversation) :
         /\ IsToolResults(conversation[p])
         /\ IsToolResults(conversation[q])
         /\ conversation[p].blocks[1].content = <<"reply">>
         /\ conversation[q].blocks[1].content = <<"reply">>
         /\ IsError(conversation[p].blocks[1])
         /\ "is_error" \in DOMAIN conversation[q].blocks[1]
         /\ ~conversation[q].blocks[1].is_error

\* Where in a log the tool results with a given id lie after position p.
AnswersAfter(conv, p, id) ==
    UNION { { <<q, r>> : r \in { r \in 1..Len(conv[q].blocks) :
                                   conv[q].blocks[r].tool_use_id = id } }
            : q \in { q \in (p + 1)..Len(conv) : IsToolResults(conv[q]) } }

\* C23: every tool result in the log carries the id of a tool_use block of
\* the nearest Assistant turn before it, and in the history of every service
\* call each tool_use block of the last Assistant turn is answered by exactly
\* one tool result after that turn (every call is the latest one in the state
\* that follows its issue).
C23_ResultCorrelation ==
    /\ \A q \in 1..Len(conversation) :
         IsToolResults(conversation[q])
         => LET p == LastAssistant(SubSeq(conversation, 1, q - 1))
            IN /\ p > 0
               /\ \A r \in 1..Len(conversation[q].blocks) :
                    conversation[q].blocks[r].tool_use_id \in TurnUseIds(conversation[p])
    /\ requests # <<>>
       => LET log == Last(requests).messages
              p == LastAssistant(log)
          IN p > 0
             => \A id \in TurnUseIds(log[p]) :
                  Cardinality(AnswersAfter(log, p, id)) = 1

\* A call has been issued after a response with two tool_use blocks, each
\* of them answered in the history sent.
C23_Witness ==
    /\ Len(requests) = 2
    /\ LET log == requests[2].messages
       IN /\ LastAssistant(log) > 0
          /\ Cardinality(TurnUseIds(log[LastAssistant(log)])) = 2

\* C24: the history of every service call is non-empty, begins with the
\* first user input and ends with a User turn, an input or tool results,
\* never with an Assistant turn.
C24_HistoryShape ==
    \A k \in 1..Len(requests) :
        LET log == requests[k].messages
        IN /\ log # <<>>
           /\ log[1].role = "user"
           /\ IsUserInput(log[1])
           /\ Last(log).role = "user"
           /\ ~IsAssistant(Last(log))
           /\ IsUserInput(Last(log)) \/ IsToolResults(Last(log))

\* A first call has been issued with the user's text as its only turn and a
\* second with tool results as its last, after a response of two blocks.
C24_Witness ==
    /\ Len(requests) = 2
    /\ Len(requests[1].messages) = 1
    /\ IsUserText(requests[1].messages[1])
    /\ IsToolResults(Last(requests[2].messages))
    /\ Len(requests[2].messages[2].blocks) = 2

\* The execution awaited raises instead of returning.
Raises(e) ==
    \/ e.kind = "local" /\ ~e.spawned
    \/ e.kind = "mcp" /\ e.reply = "reject"

\* C25: when the execute of a registered tool raises, Agent.run terminates
\* with nothing appended: the invocation has no tool result in the log, the
\* later tool_use blocks of the response are never executed, and the last
\* Assistant turn keeps an unanswered tool_use block.
C25_ToolFaultFatal ==
    [][ (pc = "exec" /\ Raises(exec) /\ pc' # "exec")
        => /\ pc' = "terminated"
           /\ fault' = "tool"
           /\ conversation' = conversation
           /\ requests' = requests
           /\ LET p == LastAssistant(conversation')
              IN /\ p > 0
                 /\ conversation'[p].blocks = response
                 /\ response[idx].id \in TurnUseIds(conversation'[p])
                 /\ AnswersAfter(conversation', p, response[idx].id) = {}
           /\ \A i \in (idx + 1)..Len(response) :
                IsToolUse(response[i])
                => \A j \in 1..Len(trace') : trace'[j] # Event("exec", response[i].id)
      ]_vars

\* The first of two invocations of a response has raised: Agent.run is
\* terminated and the second has not been executed.
C25_Witness ==
    /\ pc = "terminated"
    /\ fault = "tool"
    /\ idx = 1
    /\ Len(ToolUses(response)) = 2
    /\ Raises(exec)

\* Every response received so far holds a tool_use block.
AllResponsesUseTools ==
    /\ NumResponses >= 1
    /\ \A p \in 1..Len(conversation) :
         IsAssistant(conversation[p]) => ToolUses(conversation[p].blocks) # <<>>

\* How often Agent.run has called getUserInput.
InputsAcquired == Cardinality({ j \in 1..Len(trace) : trace[j].ev = "input" })

\* C26: as long as every response holds a tool_use block, input has been
\* acquired once only, at the start; the processing of a response always
\* comes to its end when the executions settle, however many responses have
\* gone before, and what follows it is the next service call if the response
\* held a tool_use block and input acquisition if it held none.
C26_ContinuingUnbounded ==
    /\ [](AllResponsesUseTools => InputsAcquired = 1)
    /\ [][ (pc \in {"show", "exec"} /\ pc' \notin {"show", "exec", "terminated"})
           => pc' = IF ToolUses(response) # <<>> THEN "llm" ELSE "input" ]_vars
    /\ (pc \in {"show", "exec"}) ~> (pc \in {"llm", "input"} \/ fault = "tool")

\* Two responses in a row held a tool_use block: the third service call is
\* pending and input has been acquired once.
C26_Witness ==
    /\ Len(requests) = 3
    /\ pc = "llm"
    /\ AllResponsesUseTools
    /\ NumResponses = 2
    /\ InputsAcquired = 1

====
